---- MODULE Spec2Model ----
(***************************************************************************)
(* EyeBscan (eyepy/core/eyebscan.py): one B-scan of an EyeVolume, its two  *)
(* lazily filled mappings (layers, area_maps) and its plot method.         *)
(*                                                                         *)
(* Coordinates are 0-based as in the source; a sequence stores the entry   *)
(* of coordinate c at position c + 1.  Heights are integers or NaN.        *)
(* Opacities and colour channels are percentages (100 stands for 1.0).     *)
(***************************************************************************)
EXTENDS Integers, Sequences, FiniteSets, TLC

VARIABLES
    index,      \* self.index
    volume,     \* self.volume: the parent's data, layers and volume_maps
    config,     \* eyepy.config: layer_kwargs and area_kwargs
    layers,     \* self.layers: the entries stored so far
    area_maps,  \* self.area_maps: the entries stored so far
    made,       \* how often each factory has built a value for each name
    surface,    \* the draw operations the latest plot call applied to its Axes
    last        \* the latest operation on the instance, its arguments and outcome

vars == <<index, volume, config, layers, area_maps, made, surface, last>>

(***************************************************************************)
(* Bounds of the model.                                                    *)
(***************************************************************************)
NScans == 3
Height == 3
Width == 4

Min(a, b) == IF a < b THEN a ELSE b
Max(a, b) == IF a > b THEN a ELSE b

(***************************************************************************)
(* Values: a height is a number or NaN; an optional argument is the empty  *)
(* sequence (None) or a one-element sequence.                              *)
(***************************************************************************)
NaN == [nan |-> TRUE, v |-> 0]
Num(n) == [nan |-> FALSE, v |-> n]
None == <<>>
Some(x) == <<x>>
IsNone(o) == o = <<>>
Val(o) == o[1]

(***************************************************************************)
(* The parent volume.  Its content is fixed by the formulas below; the     *)
(* instance under study is the B-scan at any one index.                    *)
(***************************************************************************)
LayerKeys == <<"ILM", "BM">>
AreaKeys == <<"drusen", "fluid">>
UnknownName == "nope"

Range(s) == {s[i] : i \in 1..Len(s)}

Pixel(i, r, c) == (i + r * Width + c) % 4

LayerHeight(name, i, c) ==
    IF name = "ILM"
    THEN Num((i + c) % (Height + 1))
    ELSE IF (i + c) % 3 = 1 THEN NaN ELSE Num(Height - ((i * c) % (Height + 1)))

MaskValue(name, i, r, c) ==
    IF name = "drusen"
    THEN (IF i = 0 THEN 0 ELSE IF i = 1 THEN 1 + ((r + c) % 2) ELSE (r + c + i) % 2)
    ELSE (IF r = c THEN 2 ELSE 0)

AreaMeta(name) ==
    IF name = "drusen" THEN ("color" :> "#00ff0080") ELSE <<>>

TheVolume ==
    [ data |-> [i \in 0..(NScans - 1) |->
                  [r \in 1..Height |-> [c \in 1..Width |-> Pixel(i, r - 1, c - 1)]]],
      layers |-> [n \in Range(LayerKeys) |->
                  [data |-> [i \in 0..(NScans - 1) |->
                               [c \in 1..Width |-> LayerHeight(n, i, c - 1)]]]],
      volume_maps |-> [n \in Range(AreaKeys) |->
                  [data |-> [i \in 0..(NScans - 1) |->
                               [r \in 1..Height |->
                                  [c \in 1..Width |-> MaskValue(n, i, r - 1, c - 1)]]],
                   meta |-> AreaMeta(n)]] ]

(***************************************************************************)
(* eyepy.config: the default styles and the layer colour table.            *)
(***************************************************************************)
DefaultLayerKwargs == ("linewidth" :> 1) @@ ("linestyle" :> "-")
DefaultAreaKwargs == ("alpha" :> 50)
TheConfig == [layer_kwargs |-> DefaultLayerKwargs, area_kwargs |-> DefaultAreaKwargs]

LayerColor(name) ==
    IF name = "ILM" THEN "b133ed" ELSE IF name = "BM" THEN "4d9e31" ELSE "7f7f7f"

(***************************************************************************)
(* Properties data and shape.                                              *)
(***************************************************************************)
Data == volume.data[index]
Shape == <<Len(Data), IF Len(Data) = 0 THEN 0 ELSE Len(Data[1])>>

NoCall == [op |-> "none"]

Init ==
    /\ index \in 0..(NScans - 1)
    /\ volume = TheVolume
    /\ config = TheConfig
    /\ layers = <<>>
    /\ area_maps = <<>>
    /\ made = [k \in {"layers", "area_maps"} |->
                 [n \in Range(LayerKeys) \cup Range(AreaKeys) \cup {UnknownName} |-> 0]]
    /\ surface = <<>>
    /\ last = NoCall

(***************************************************************************)
(* The running state of one operation: the instance's mappings, the        *)
(* objects it can reach, what it has drawn and the exception it raised     *)
(* ("" while none).                                                        *)
(***************************************************************************)
Entry ==
    [layers |-> layers, area_maps |-> area_maps, made |-> made, surface |-> <<>>,
     error |-> "", volume |-> volume, config |-> config]

NoValue == [kind |-> "none"]

(***************************************************************************)
(* The two factories handed to DynamicDefaultDict in __init__.  Indexing   *)
(* the parent's registry with an absent name raises KeyError.              *)
(***************************************************************************)
LayerFactory(st, x) ==
    IF x \notin DOMAIN st.volume.layers
    THEN [error |-> "KeyError", value |-> NoValue]
    ELSE [error |-> "",
          value |-> [kind |-> "EyeBscanLayerAnnotation", name |-> x, index |-> index,
                     serial |-> st.made["layers"][x] + 1]]

AreaFactory(st, x) ==
    IF x \notin DOMAIN st.volume.volume_maps
    THEN [error |-> "KeyError", value |-> NoValue]
    ELSE [error |-> "",
          value |-> [kind |-> "ndarray", name |-> x, index |-> index,
                     serial |-> st.made["area_maps"][x] + 1]]

Factory(st, which, x) ==
    IF which = "layers" THEN LayerFactory(st, x) ELSE AreaFactory(st, x)

(***************************************************************************)
(* DynamicDefaultDict: __missing__ builds the value with the factory,      *)
(* stores it under the key and returns it; a stored key is returned as is. *)
(***************************************************************************)
Missing(st, which, key) ==
    LET f == Factory(st, which, key) IN
    IF f.error # ""
    THEN [st |-> [st EXCEPT !.error = f.error], value |-> NoValue]
    ELSE [st |-> [st EXCEPT ![which] = (key :> f.value) @@ st[which],
                            !.made[which][key] = @ + 1],
          value |-> f.value]

GetItem(st, which, key) ==
    IF key \in DOMAIN st[which]
    THEN [st |-> st, value |-> st[which][key]]
    ELSE Missing(st, which, key)

Names == Range(LayerKeys) \cup Range(AreaKeys) \cup {UnknownName}

(***************************************************************************)
(* bscan.layers[name] and bscan.area_maps[name] read by a caller.          *)
(***************************************************************************)
Access(which, name) ==
    \E r \in {GetItem(Entry, which, name)} :
    /\ layers' = r.st.layers
    /\ area_maps' = r.st.area_maps
    /\ made' = r.st.made
    /\ last' = [op |-> which, name |-> name, error |-> r.st.error, value |-> r.value]
    /\ UNCHANGED <<index, volume, config, surface>>

AccessLayer == \E name \in Names : Access("layers", name)

AccessArea == \E name \in Names : Access("area_maps", name)

(***************************************************************************)
(* plot, step 1: the region index expression is completed.  region[0] is   *)
(* the row slice, region[1] the column slice.                              *)
(***************************************************************************)
Slice(a, b) == [start |-> a, stop |-> b]
Region(a, b, c, d) == <<Slice(a, b), Slice(c, d)>>

\* Variant: an unspecified column stop takes the row count.
ResolveRegionRowsOnly(shape, region) ==
    LET r0_start == IF IsNone(region[1].start) THEN 0 ELSE Val(region[1].start)
        r1_start == IF IsNone(region[2].start) THEN 0 ELSE Val(region[2].start)
        r0_stop == IF IsNone(region[1].stop) THEN shape[1] ELSE Val(region[1].stop)
        r1_stop == IF IsNone(region[2].stop) THEN shape[1] ELSE Val(region[2].stop)
    IN  <<[start |-> r0_start, stop |-> r0_stop], [start |-> r1_start, stop |-> r1_stop]>>

ResolveRegion(shape, region) ==
    LET r0_start == IF IsNone(region[1].start) THEN 0 ELSE Val(region[1].start)
        r1_start == IF IsNone(region[2].start) THEN 0 ELSE Val(region[2].start)
        r0_stop == IF IsNone(region[1].stop) THEN shape[1] ELSE Val(region[1].stop)
        r1_stop == IF IsNone(region[2].stop) THEN shape[2] ELSE Val(region[2].stop)
    IN  <<[start |-> r0_start, stop |-> r0_stop], [start |-> r1_start, stop |-> r1_stop]>>

(***************************************************************************)
(* Basic slicing a[start:stop] of an axis of length n: a negative bound    *)
(* counts from the end, every bound is clipped to 0..n, and start >= stop  *)
(* selects nothing.  The result lists the selected coordinates.            *)
(***************************************************************************)
SliceBound(b, n) == IF b < 0 THEN Max(b + n, 0) ELSE Min(b, n)

\* Variant: reversed bounds are put in order before slicing.
SliceIndicesOrdered(start, stop, n) ==
    LET lo == SliceBound(Min(start, stop), n)
        hi == SliceBound(Max(start, stop), n)
    IN  [k \in 1..Max(hi - lo, 0) |-> lo + k - 1]

SliceIndices(start, stop, n) ==
    LET lo == SliceBound(start, n)
        hi == SliceBound(stop, n)
    IN  [k \in 1..Max(hi - lo, 0) |-> lo + k - 1]

\* arr[region] of a two-dimensional array: an image with its shape.
Crop2D(arr, region) ==
    LET nrows == Len(arr)
        ncols == IF nrows = 0 THEN 0 ELSE Len(arr[1])
        rs == SliceIndices(region[1].start, region[1].stop, nrows)
        cs == SliceIndices(region[2].start, region[2].stop, ncols)
    IN  [shape |-> <<Len(rs), Len(cs)>>,
         px |-> [a \in 1..Len(rs) |-> [b \in 1..Len(cs) |-> arr[rs[a] + 1][cs[b] + 1]]]]

(***************************************************************************)
(* plot, step 2: which layers and areas are drawn.  The argument is False, *)
(* True, None or a list of names; keys is the parent's registry in its     *)
(* enumeration order.                                                      *)
(***************************************************************************)
BoolArg(b) == [kind |-> "bool", b |-> b, names |-> <<>>]
NoneArg == [kind |-> "None", b |-> FALSE, names |-> <<>>]
ListArg(names) == [kind |-> "list", b |-> FALSE, names |-> names]

Falsy(arg) ==
    \/ arg.kind = "None"
    \/ arg.kind = "bool" /\ ~arg.b
    \/ arg.kind = "list" /\ arg.names = <<>>

\* Variant: "is False" in place of "not": None and [] select every key.
SelectNamesIsFalse(arg, keys) ==
    IF arg.kind = "bool" /\ ~arg.b THEN <<>>
    ELSE IF arg.kind = "list" /\ arg.names # <<>> THEN arg.names
    ELSE keys

SelectNames(arg, keys) ==
    IF Falsy(arg) THEN <<>>
    ELSE IF arg.kind = "bool" /\ arg.b THEN keys
    ELSE arg.names

(***************************************************************************)
(* plot, step 3: the style.  None takes the configured default itself;     *)
(* otherwise {**default, **given} is a new mapping.  The result carries    *)
(* the default and the caller's mapping as they are afterwards.            *)
(***************************************************************************)
\* Variant: {**given, **default}, the default wins.
MergedStyleDefaultWins(default, given) ==
    [k \in (DOMAIN default) \cup (DOMAIN given) |->
        IF k \in DOMAIN default THEN default[k] ELSE given[k]]

MergedStyle(default, given) ==
    [k \in (DOMAIN default) \cup (DOMAIN given) |->
        IF k \in DOMAIN given THEN given[k] ELSE default[k]]

StyleResolution(default, kwargs) ==
    [style |-> IF IsNone(kwargs) THEN default ELSE MergedStyle(default, Val(kwargs)),
     default |-> default,
     kwargs |-> kwargs]

(***************************************************************************)
(* matplotlib.colors.to_rgba on the colours that occur.                    *)
(***************************************************************************)
ToRGBA(color) ==
    IF color = "red" THEN <<100, 0, 0, 100>>
    ELSE IF color = "#00ff0080" THEN <<0, 100, 0, 50>>
    ELSE <<0, 0, 0, 100>>

(***************************************************************************)
(* plot, step 4: the base image.                                           *)
(***************************************************************************)
BaseImage(st, region) ==
    [what |-> "base", op |-> "imshow", label |-> "",
     image |-> Crop2D(st.volume.data[index], region), cmap |-> "gray"]

(***************************************************************************)
(* plot, step 5: one area.  The mask is fetched through area_maps and      *)
(* cropped; the colour is tiled over the crop and its alpha channel is     *)
(* multiplied by visible * area_kwargs["alpha"].                           *)
(***************************************************************************)
AreaColor(meta) == ToRGBA(IF "color" \in DOMAIN meta THEN meta["color"] ELSE "red")

Visible(data) ==
    [a \in 1..Len(data.px) |-> [b \in 1..Len(data.px[a]) |-> data.px[a][b] # 0]]

\* Variant: the alpha channel is scaled by the configured alpha alone.
PlotDataUnmasked(data, color, alpha) ==
    [shape |-> data.shape,
     px |-> [a \in 1..Len(data.px) |-> [b \in 1..Len(data.px[a]) |->
               <<color[1], color[2], color[3], (color[4] * alpha) \div 100>>]]]

PlotData(data, color, alpha) ==
    LET visible == Visible(data) IN
    [shape |-> data.shape,
     px |-> [a \in 1..Len(data.px) |-> [b \in 1..Len(data.px[a]) |->
               <<color[1], color[2], color[3],
                 (color[4] * ((IF visible[a][b] THEN 1 ELSE 0) * alpha)) \div 100>>]]]

\* Variant: plot rebuilds the mask slice and stores it again on every call.
AreaMapsRebuild(st, area) == Missing(st, "area_maps", area)

\* self.area_maps[area]
AreaMapsGet(st, area) == GetItem(st, "area_maps", area)

AreaStep(st, area, region, area_kwargs) ==
    LET got == AreaMapsGet(st, area) IN
    IF got.st.error # "" THEN got.st
    ELSE
      LET s1 == got.st
          data == Crop2D(s1.volume.volume_maps[got.value.name].data[got.value.index],
                         region)
          color == AreaColor(s1.volume.volume_maps[area].meta)
          patch == [what |-> "marker", op |-> "add_patch", label |-> area,
                    radius |-> 0, color |-> color]
          overlay == [what |-> "overlay", op |-> "imshow", label |-> area,
                      image |-> PlotData(data, color, area_kwargs["alpha"]),
                      interpolation |-> "none"]
      IN  [s1 EXCEPT !.surface = @ \o <<patch, overlay>>]

(***************************************************************************)
(* plot, step 6: one layer.  Arrays are reached through references: the    *)
(* annotation's data is a view of the parent's row, a subtraction          *)
(* allocates a new array, a slice is a view of the array it slices, and a  *)
(* masked assignment writes through its view.                              *)
(***************************************************************************)
TmpRef == [kind |-> "tmp", name |-> "", index |-> 0]

LayerDataRef(obj) == [kind |-> "volume", name |-> obj.name, index |-> obj.index]

ReadRef(h, ref) ==
    IF ref.kind = "tmp" THEN h.tmp ELSE h.volume.layers[ref.name].data[ref.index]

WriteRef(h, ref, arr) ==
    IF ref.kind = "tmp" THEN [h EXCEPT !.tmp = arr]
    ELSE [h EXCEPT !.volume.layers[ref.name].data[ref.index] = arr]

Minus(x, k) == IF x.nan THEN x ELSE Num(x.v - k)
Less(x, k) == ~x.nan /\ x.v < k
Greater(x, k) == ~x.nan /\ x.v > k

\* Variant: layer_data -= k, the subtraction writes into the array it reads.
SubtractInPlace(h, ref, k) ==
    LET src == ReadRef(h, ref) IN
    [h |-> WriteRef(h, ref, [c \in 1..Len(src) |-> Minus(src[c], k)]),
     ref |-> ref]

\* layer_data - k
Subtract(h, ref, k) ==
    LET src == ReadRef(h, ref) IN
    [h |-> WriteRef(h, TmpRef, [c \in 1..Len(src) |-> Minus(src[c], k)]),
     ref |-> TmpRef]

\* layer_data[start:stop]
SliceView(h, ref, start, stop) ==
    [ref |-> ref, at |-> SliceIndices(start, stop, Len(ReadRef(h, ref)))]

ViewValues(h, view) ==
    LET src == ReadRef(h, view.ref) IN
    [k \in 1..Len(view.at) |-> src[view.at[k] + 1]]

\* layer_data[layer_data < bound] = value
AssignBelow(h, view, bound, value) ==
    LET src == ReadRef(h, view.ref) IN
    WriteRef(h, view.ref,
             [c \in 1..Len(src) |->
                IF (c - 1) \in Range(view.at) /\ Less(src[c], bound)
                THEN Num(value) ELSE src[c]])

\* Variant: the upper clamp is left out.
AssignAboveNothing(h, view, bound, value) == h

\* layer_data[layer_data > bound] = value
AssignAbove(h, view, bound, value) ==
    LET src == ReadRef(h, view.ref) IN
    WriteRef(h, view.ref,
             [c \in 1..Len(src) |->
                IF (c - 1) \in Range(view.at) /\ Greater(src[c], bound)
                THEN Num(value) ELSE src[c]])

\* self.layers[layer]
LayersGet(st, layer) == GetItem(st, "layers", layer)

LayerStep(st, layer, region, layer_kwargs) ==
    LET color == LayerColor(layer)
        got == LayersGet(st, layer)
    IN
    IF got.st.error # "" THEN got.st
    ELSE
      LET s1 == got.st
          h0 == [volume |-> s1.volume, tmp |-> <<>>]
          shifted == Subtract(h0, LayerDataRef(got.value), region[1].start)
          layer_data == SliceView(shifted.h, shifted.ref, region[2].start, region[2].stop)
          h1 == AssignBelow(shifted.h, layer_data, 0, 0)
          region_height == region[1].stop - region[1].start
          h2 == AssignAbove(h1, layer_data, region_height, region_height)
          line == [what |-> "line", op |-> "plot", label |-> layer,
                   ydata |-> ViewValues(h2, layer_data), color |-> "#" \o color,
                   style |-> layer_kwargs]
      IN  [s1 EXCEPT !.volume = h2.volume, !.surface = @ \o <<line>>]

(***************************************************************************)
(* The two loops; an exception ends the call where it is raised.           *)
(***************************************************************************)
\* Variant: an area whose lookup fails is skipped and the loop goes on.
RECURSIVE PlotAreasSkipping(_, _, _, _)
PlotAreasSkipping(st, areas, region, area_kwargs) ==
    IF areas = <<>> THEN st
    ELSE LET next == AreaStep(st, Head(areas), region, area_kwargs) IN
         PlotAreasSkipping(IF next.error # "" THEN st ELSE next, Tail(areas),
                           region, area_kwargs)

RECURSIVE PlotAreas(_, _, _, _)
PlotAreas(st, areas, region, area_kwargs) ==
    IF areas = <<>> \/ st.error # "" THEN st
    ELSE PlotAreas(AreaStep(st, Head(areas), region, area_kwargs), Tail(areas),
                   region, area_kwargs)

RECURSIVE PlotLayers(_, _, _, _)
PlotLayers(st, lnames, region, layer_kwargs) ==
    IF lnames = <<>> \/ st.error # "" THEN st
    ELSE PlotLayers(LayerStep(st, Head(lnames), region, layer_kwargs), Tail(lnames),
                    region, layer_kwargs)

\* Variant: the layer loop runs before the area loop.
OverlaysLayersFirst(st, areas, lnames, region, area_kwargs, layer_kwargs) ==
    PlotAreas(PlotLayers(st, lnames, region, layer_kwargs), areas, region, area_kwargs)

Overlays(st, areas, lnames, region, area_kwargs, layer_kwargs) ==
    PlotLayers(PlotAreas(st, areas, region, area_kwargs), lnames, region, layer_kwargs)

(***************************************************************************)
(* plot(ax, layers, areas, layer_kwargs, area_kwargs, annotations_only,    *)
(* region) as a whole.  surface is the Axes drawn on, the one passed or    *)
(* plt.gca().                                                              *)
(***************************************************************************)
PlotArgs(ls, as, lk, ak, only, region) ==
    [layers |-> ls, areas |-> as, layer_kwargs |-> lk, area_kwargs |-> ak,
     annotations_only |-> only, region |-> region]

PlotResult(args) ==
    LET region == ResolveRegion(Shape, args.region)
        lnames == SelectNames(args.layers, LayerKeys)
        areas == SelectNames(args.areas, AreaKeys)
        lk == StyleResolution(config.layer_kwargs, args.layer_kwargs)
        ak == StyleResolution(config.area_kwargs, args.area_kwargs)
        s0 == [Entry EXCEPT
                 !.config = [layer_kwargs |-> lk.default, area_kwargs |-> ak.default],
                 !.surface = IF args.annotations_only THEN <<>>
                             ELSE <<BaseImage(Entry, region)>>]
    IN  [st |-> Overlays(s0, areas, lnames, region, ak.style, lk.style),
         region |-> region, lnames |-> lnames, areas |-> areas,
         layer_kwargs |-> lk.style, area_kwargs |-> ak.style,
         kwargs_after |-> [layer_kwargs |-> lk.kwargs, area_kwargs |-> ak.kwargs]]

PlotCall(args) ==
    \E r \in {PlotResult(args)} :
    /\ layers' = r.st.layers
    /\ area_maps' = r.st.area_maps
    /\ made' = r.st.made
    /\ volume' = r.st.volume
    /\ config' = r.st.config
    /\ surface' = r.st.surface
    /\ last' = [op |-> "plot", args |-> args, error |-> r.st.error,
                region |-> r.region, lnames |-> r.lnames, areas |-> r.areas,
                layer_kwargs |-> r.layer_kwargs, area_kwargs |-> r.area_kwargs,
                kwargs_after |-> r.kwargs_after,
                before |-> [layers |-> layers, area_maps |-> area_maps]]
    /\ UNCHANGED index

(***************************************************************************)
(* The arguments callers pass.  CallArgs is the small set used when calls  *)
(* and accesses follow one another; SweepArgs is the wide set given to the *)
(* first call on a new instance: every region with bounds from one below   *)
(* to one above the extent, every selection of up to two names, and every  *)
(* partial style.                                                          *)
(***************************************************************************)
FullRegion == Region(None, None, None, None)

RowBounds == {None} \cup {Some(n) : n \in (0 - 1)..(Height + 1)}
ColBounds == {None} \cup {Some(n) : n \in (0 - 1)..(Width + 1)}
AllRegions ==
    {Region(a, b, c, d) : a \in RowBounds, b \in RowBounds, c \in ColBounds, d \in ColBounds}

NameLists == {<<>>} \cup {<<n>> : n \in Names} \cup {<<n, m>> : n \in Names, m \in Names}
Selections == {BoolArg(FALSE), BoolArg(TRUE), NoneArg} \cup {ListArg(l) : l \in NameLists}

LayerStyles ==
    {None, Some(<<>>), Some("color" :> "k")}
    \cup {Some("linewidth" :> w) : w \in {1, 3}}
    \cup {Some("linestyle" :> l) : l \in {"-", "--"}}
    \cup {Some(("linewidth" :> w) @@ ("linestyle" :> l)) : w \in {1, 3}, l \in {"-", "--"}}
AreaStyles == {None, Some(<<>>)} \cup {Some("alpha" :> a) : a \in {0, 20, 100}}

RegionSweep ==
    {PlotArgs(BoolArg(TRUE), BoolArg(TRUE), None, None, FALSE, r) : r \in AllRegions}
SelectionSweep ==
    {PlotArgs(ls, as, None, None, only, FullRegion) :
        ls \in Selections, as \in Selections, only \in BOOLEAN}
StyleSweep ==
    {PlotArgs(BoolArg(TRUE), BoolArg(TRUE), lk, ak, FALSE, r) :
        lk \in LayerStyles, ak \in AreaStyles,
        r \in {FullRegion, Region(Some(1), None, None, Some(2))}}
SweepArgs == RegionSweep \cup SelectionSweep \cup StyleSweep

CallArgs ==
    {PlotArgs(ls, as, k[1], k[2], k[3], r) :
        ls \in {BoolArg(FALSE), BoolArg(TRUE), ListArg(<<"ILM", "nope">>)},
        as \in {BoolArg(FALSE), BoolArg(TRUE), ListArg(<<"nope", "drusen">>)},
        k \in {<<None, None, FALSE>>, <<Some("linewidth" :> 3), Some("alpha" :> 100), TRUE>>},
        r \in {FullRegion, Region(Some(1), Some(2), Some(1), None)}}

Plot == \E args \in CallArgs : PlotCall(args)

FirstPlot == last = NoCall /\ \E args \in SweepArgs : PlotCall(args)

Next == AccessLayer \/ AccessArea \/ Plot

Spec == Init /\ [][Next]_vars

\* A new instance that receives one plot call.
SpecFirstPlot == Init /\ [][FirstPlot]_vars

(***************************************************************************)
(*                              The claims                                 *)
(***************************************************************************)
IsPlot == last.op = "plot"
PlotOK == IsPlot /\ last.error = ""
Caches == {"layers", "area_maps"}
Cache(which) == IF which = "layers" THEN layers ELSE area_maps

\* C1: once layers[name] or area_maps[name] has been stored, every later step
\* (an access or a plot) keeps the entry, with the identical value; an access
\* of a stored name returns that value; and no factory builds a value for the
\* same name twice.
C1_CacheStable ==
    [][ /\ \A n \in DOMAIN layers : n \in DOMAIN layers' /\ layers'[n] = layers[n]
        /\ \A n \in DOMAIN area_maps :
              n \in DOMAIN area_maps' /\ area_maps'[n] = area_maps[n]
        /\ \A w \in Caches : \A n \in Names : made'[w][n] <= 1
        /\ \A w \in Caches :
              (last'.op = w /\ last'.name \in DOMAIN Cache(w))
                 => (last'.error = "" /\ last'.value = Cache(w)[last'.name])
      ]_vars

\* C1 witness: a successful plot that selected a layer and an area which were
\* both stored before the call began.
C1_Witness ==
    /\ PlotOK
    /\ \E n \in DOMAIN last.before.layers : n \in Range(last.lnames)
    /\ \E n \in DOMAIN last.before.area_maps : n \in Range(last.areas)

\* C2: the resolved region takes 0 for an unspecified start, the axis length
\* (height for rows, width for columns) for an unspecified stop, and every
\* specified bound unchanged; (:, :) resolves to (0, height, 0, width) and
\* (2:5, :10) on shape (10, 20) to rows 2..5 and columns 0..10.
C2_RegionResolved ==
    /\ IsPlot =>
         LET a == last.args.region[1].start
             b == last.args.region[1].stop
             c == last.args.region[2].start
             d == last.args.region[2].stop
         IN  /\ last.region[1].start = (IF a = None THEN 0 ELSE a[1])
             /\ last.region[1].stop = (IF b = None THEN Height ELSE b[1])
             /\ last.region[2].start = (IF c = None THEN 0 ELSE c[1])
             /\ last.region[2].stop = (IF d = None THEN Width ELSE d[1])
    /\ ResolveRegion(<<Height, Width>>, FullRegion) = <<Slice(0, Height), Slice(0, Width)>>
    /\ ResolveRegion(<<10, 20>>, Region(Some(2), Some(5), None, Some(10)))
          = <<Slice(2, 5), Slice(0, 10)>>

\* C2 witness: a call whose region leaves the row stop and the column start
\* unspecified and gives the other two bounds.
C2_Witness ==
    /\ IsPlot
    /\ last.args.region = Region(Some(1), None, None, Some(2))
    /\ last.region = <<Slice(1, Height), Slice(0, 2)>>

(***************************************************************************)
(* What the claims about a layer's line compare it with: the parent's      *)
(* curve as it was built, shifted by the region's row start, at the        *)
(* columns c0..c1-1 the scan has.                                          *)
(***************************************************************************)
OriginalCurve(name) == TheVolume.layers[name].data[index]

ClaimedColumns(c0, c1) ==
    LET lo == Max(c0, 0)
        hi == Min(c1, Width)
    IN  [k \in 1..Max(hi - lo, 0) |-> lo + k - 1]

ClampedAsClaimed(s, d, rh) ==
    /\ s.nan => d.nan
    /\ (~s.nan /\ s.v < 0) => d = Num(0)
    /\ (~s.nan /\ s.v > rh) => d = Num(rh)
    /\ (~s.nan /\ 0 <= s.v /\ s.v <= rh) => d = s
    /\ ~d.nan => (0 <= d.v /\ d.v <= rh)

LineAsClaimed(ln) ==
    LET r0 == last.region[1].start
        rh == last.region[1].stop - r0
        cols == ClaimedColumns(last.region[2].start, last.region[2].stop)
        orig == OriginalCurve(ln.label)
    IN  /\ Len(ln.ydata) = Len(cols)
        /\ \A k \in 1..Len(cols) :
              ClampedAsClaimed(Minus(orig[cols[k] + 1], r0), ln.ydata[k], rh)

LinesAsClaimed ==
    \A i \in 1..Len(surface) : surface[i].what = "line" => LineAsClaimed(surface[i])

\* C3 as stated: for every resolved region, every drawn line is the layer's
\* curve shifted by -r0, restricted to columns c0..c1-1 and clamped: below 0
\* drawn as 0, above region_height drawn as region_height, in between
\* unchanged, NaN kept; every defined drawn value lies in [0, region_height].
C3_ClampEveryRegion == IsPlot => LinesAsClaimed

\* C3 amended: the same for every resolved region with r0 <= r1 and
\* non-negative column bounds.
C3_Clamp ==
    (/\ IsPlot
     /\ last.region[1].start <= last.region[1].stop
     /\ last.region[2].start >= 0
     /\ last.region[2].stop >= 0) => LinesAsClaimed

\* C3 witness: a region of height at least 1 with non-negative column bounds
\* and a line in which a negative shifted value is drawn as 0 and a shifted
\* value above region_height is drawn as region_height.
C3_Witness ==
    /\ IsPlot
    /\ last.region[1].start <= last.region[1].stop
    /\ last.region[2].start >= 0 /\ last.region[2].stop >= 0
    /\ \E i \in 1..Len(surface) :
          /\ surface[i].what = "line"
          /\ LET ln == surface[i]
                 r0 == last.region[1].start
                 rh == last.region[1].stop - r0
                 cols == ClaimedColumns(last.region[2].start, last.region[2].stop)
                 orig == OriginalCurve(ln.label)
             IN  /\ rh >= 1
                 /\ \E k \in 1..Len(cols) :
                       /\ Minus(orig[cols[k] + 1], r0).v < 0
                       /\ ln.ydata[k] = Num(0)
                 /\ \E k \in 1..Len(cols) :
                       /\ Minus(orig[cols[k] + 1], r0).v > rh
                       /\ ln.ydata[k] = Num(rh)

(***************************************************************************)
(* What the claims about an area's overlay compare it with.                *)
(***************************************************************************)
ClaimedColor(area) ==
    LET meta == TheVolume.volume_maps[area].meta IN
    IF "color" \in DOMAIN meta THEN ToRGBA(meta["color"]) ELSE <<100, 0, 0, 100>>

MaskCrop(area) == Crop2D(TheVolume.volume_maps[area].data[index], last.region)

\* shown(area) is the alpha an overlay pixel has where the mask is nonzero.
OverlaysHave(shown(_)) ==
    \A i \in 1..Len(surface) :
       surface[i].what = "overlay" =>
          LET ov == surface[i]
              mask == MaskCrop(ov.label)
              rgba == ClaimedColor(ov.label)
          IN  /\ ov.image.shape = mask.shape
              /\ Len(ov.image.px) = Len(mask.px)
              /\ \A a \in 1..Len(mask.px) :
                    /\ Len(ov.image.px[a]) = Len(mask.px[a])
                    /\ \A b \in 1..Len(mask.px[a]) :
                          ov.image.px[a][b] =
                             <<rgba[1], rgba[2], rgba[3],
                               IF mask.px[a][b] = 0 THEN 0 ELSE shown(ov.label)>>

ConfiguredAlpha == last.area_kwargs["alpha"]
AlphaAsStated(area) == ConfiguredAlpha
AlphaTimesColor(area) == (ClaimedColor(area)[4] * ConfiguredAlpha) \div 100

\* C4 as stated: every overlay pixel has the area's colour (metadata "color",
\* else red), alpha 0 where the cropped mask is zero and alpha equal to the
\* configured area alpha (0.5 unless given) where it is nonzero.
C4_AlphaIsConfigured ==
    IsPlot => /\ OverlaysHave(AlphaAsStated)
              /\ (last.args.area_kwargs = None => ConfiguredAlpha = 50)

\* C4 amended: every overlay pixel has the area's colour channels, alpha 0
\* where the cropped mask is zero and, where it is nonzero, the colour's own
\* alpha times the configured area alpha (0.5 unless given), which is the
\* configured alpha itself for an opaque colour such as the default red.
C4_AlphaScaled ==
    IsPlot => /\ OverlaysHave(AlphaTimesColor)
              /\ (last.args.area_kwargs = None => ConfiguredAlpha = 50)
              /\ \A i \in 1..Len(surface) :
                    (surface[i].what = "overlay" /\ ClaimedColor(surface[i].label)[4] = 100)
                       => AlphaTimesColor(surface[i].label) = ConfiguredAlpha

\* C4 witness: overlays of a red area and of an area with its own colour, the
\* configured alpha given by the caller, the first overlay with transparent
\* and visible pixels.
C4_Witness ==
    /\ PlotOK
    /\ last.args.area_kwargs = Some("alpha" :> 20)
    /\ \E i, j \in 1..Len(surface) :
          /\ surface[i].what = "overlay" /\ surface[i].label = "fluid"
          /\ surface[j].what = "overlay" /\ surface[j].label = "drusen"
          /\ \E a \in 1..Len(surface[i].image.px) :
                \E b, c \in 1..Len(surface[i].image.px[a]) :
                   /\ surface[i].image.px[a][b][4] = 20
                   /\ surface[i].image.px[a][c][4] = 0

\* The effective style claimed for a default and the caller's argument.
StyleAsClaimed(default, kwargs, effective) ==
    IF kwargs = None THEN effective = default
    ELSE /\ DOMAIN effective = (DOMAIN default) \cup (DOMAIN kwargs[1])
         /\ \A k \in DOMAIN effective :
               effective[k] = (IF k \in DOMAIN kwargs[1] THEN kwargs[1][k] ELSE default[k])

\* C5: per key the effective style has the caller's value if the caller gave
\* the key and else the default (linewidth 1, linestyle "-" for layers, alpha
\* 0.5 for areas); None gives the defaults; lines are drawn with the effective
\* layer style.
C5_StyleMerge ==
    IsPlot =>
      /\ StyleAsClaimed(("linewidth" :> 1) @@ ("linestyle" :> "-"),
                        last.args.layer_kwargs, last.layer_kwargs)
      /\ StyleAsClaimed(("alpha" :> 50), last.args.area_kwargs, last.area_kwargs)
      /\ last.args.layer_kwargs = Some("linewidth" :> 3)
            => (last.layer_kwargs["linewidth"] = 3 /\ last.layer_kwargs["linestyle"] = "-")
      /\ \A i \in 1..Len(surface) :
            surface[i].what = "line" => surface[i].style = last.layer_kwargs

\* C5 witness: layer_kwargs = {"linewidth": 3} and a line drawn with linewidth
\* 3 and linestyle "-".
C5_Witness ==
    /\ PlotOK
    /\ last.args.layer_kwargs = Some("linewidth" :> 3)
    /\ \E i \in 1..Len(surface) :
          /\ surface[i].what = "line"
          /\ surface[i].style["linewidth"] = 3
          /\ surface[i].style["linestyle"] = "-"

IsOverlay(e) == e.what = "overlay"
IsLine(e) == e.what = "line"
LabelsOf(draws) == [i \in 1..Len(draws) |-> draws[i].label]

SelectionAsClaimed(arg, keys, registry, names) ==
    /\ arg \in {BoolArg(FALSE), NoneArg, ListArg(<<>>)} => names = <<>>
    /\ arg = BoolArg(TRUE) =>
          (names = keys /\ Len(names) = Cardinality(DOMAIN registry))
    /\ (arg.kind = "list" /\ arg.names # <<>>) => names = arg.names

\* C6: the names drawn are none for a falsy argument, the registry's keys in
\* its enumeration order for True, and the given list in its order for a list
\* of names; a call that completes has drawn one overlay per selected area
\* and one line per selected layer, in that order.
C6_Selection ==
    IsPlot =>
      /\ SelectionAsClaimed(last.args.layers, LayerKeys, volume.layers, last.lnames)
      /\ SelectionAsClaimed(last.args.areas, AreaKeys, volume.volume_maps, last.areas)
      /\ last.error = "" =>
            /\ LabelsOf(SelectSeq(surface, IsOverlay)) = last.areas
            /\ LabelsOf(SelectSeq(surface, IsLine)) = last.lnames

\* C6 witness: areas=True draws as many overlays as the registry has keys,
\* next to an explicit list of layers in an order of the caller's.
C6_Witness ==
    /\ PlotOK
    /\ last.args.areas = BoolArg(TRUE)
    /\ last.args.layers = ListArg(<<"BM", "ILM">>)
    /\ Len(SelectSeq(surface, IsOverlay)) = Cardinality(DOMAIN volume.volume_maps)
    /\ LabelsOf(SelectSeq(surface, IsLine)) = <<"BM", "ILM">>

ExplicitReversed(sl) == sl.start # None /\ sl.stop # None /\ sl.start[1] > sl.stop[1]
ExplicitOutside(sl, n) ==
    \/ sl.start # None /\ (sl.start[1] < 0 \/ sl.start[1] > n)
    \/ sl.stop # None /\ (sl.stop[1] < 0 \/ sl.stop[1] > n)
OddRegion(region) ==
    \/ ExplicitReversed(region[1]) \/ ExplicitReversed(region[2])
    \/ ExplicitOutside(region[1], Height) \/ ExplicitOutside(region[2], Width)
AllKnown ==
    /\ Range(last.lnames) \subseteq Range(LayerKeys)
    /\ Range(last.areas) \subseteq Range(AreaKeys)
DrawCount ==
    (IF last.args.annotations_only THEN 0 ELSE 1) + 2 * Len(last.areas) + Len(last.lnames)
ImagesEmptyOn(axis) ==
    \A i \in 1..Len(surface) :
       surface[i].what \in {"base", "overlay"} => surface[i].image.shape[axis] = 0

\* C8: a region with explicit reversed bounds or with bounds outside the
\* extent is not rejected: with every selected name known the call completes
\* with all its draws; non-negative reversed bounds give images that are empty
\* along that axis, and reversed column bounds give empty lines.
C8_RegionNotValidated ==
    (IsPlot /\ OddRegion(last.args.region) /\ AllKnown) =>
      /\ last.error = ""
      /\ Len(surface) = DrawCount
      /\ (ExplicitReversed(last.args.region[1]) /\ last.region[1].stop >= 0)
            => ImagesEmptyOn(1)
      /\ (ExplicitReversed(last.args.region[2]) /\ last.region[2].stop >= 0)
            => /\ ImagesEmptyOn(2)
               /\ \A i \in 1..Len(surface) :
                     surface[i].what = "line" => surface[i].ydata = <<>>

\* C8 witness: rows 2:1 and columns up to one past the width; the call
\* completes and its base image has no rows.
C8_Witness ==
    /\ PlotOK
    /\ last.args.region = Region(Some(2), Some(1), None, Some(Width + 1))
    /\ Len(surface) = 7
    /\ surface[1].what = "base"
    /\ surface[1].image.shape = <<0, Width>>

ExpectedOrder ==
    LET nb == IF last.args.annotations_only THEN 0 ELSE 1
        na == Len(last.areas)
        nl == Len(last.lnames)
    IN  [i \in 1..(nb + 2 * na + nl) |->
           IF i <= nb THEN <<"base", "">>
           ELSE IF i <= nb + 2 * na
                THEN <<IF (i - nb) % 2 = 1 THEN "marker" ELSE "overlay",
                       last.areas[(i - nb + 1) \div 2]>>
                ELSE <<"line", last.lnames[i - nb - 2 * na]>>]

\* C9: a call that completes has drawn, in this order: the grayscale image of
\* data cropped to the resolved region, once unless annotations_only; for each
\* selected area in order its marker of radius 0 and then its overlay; for
\* each selected layer in order its line.
C9_DrawOrder ==
    PlotOK =>
      /\ [i \in 1..Len(surface) |-> <<surface[i].what, surface[i].label>>] = ExpectedOrder
      /\ \A i \in 1..Len(surface) :
            /\ surface[i].what = "base" =>
                  /\ surface[i].image = Crop2D(TheVolume.data[index], last.region)
                  /\ surface[i].cmap = "gray"
            /\ surface[i].what = "marker" => surface[i].radius = 0

\* C9 witness: a completed call with the base image, two areas and two layers.
C9_Witness ==
    /\ PlotOK
    /\ ~last.args.annotations_only
    /\ Len(last.areas) = 2
    /\ Len(last.lnames) = 2
    /\ Len(surface) = 7

RegistryOf(which) == IF which = "layers" THEN volume.layers ELSE volume.volume_maps

\* C7: layers[name] and area_maps[name] with a name absent from the parent's
\* registry raise KeyError and store nothing; a plot call that selects an
\* absent name raises KeyError, draws nothing for that name, and every plot
\* call either completes with all its selected overlays drawn or raises.
C7_LookupFails ==
    /\ \A w \in Caches :
          /\ (last.op = w /\ last.name \notin DOMAIN RegistryOf(w))
                => last.error = "KeyError"
          /\ DOMAIN Cache(w) \subseteq DOMAIN RegistryOf(w)
    /\ IsPlot =>
          /\ ~AllKnown => last.error = "KeyError"
          /\ last.error \in {"", "KeyError"}
          /\ last.error = "" =>
                /\ Len(surface) = DrawCount
                /\ LabelsOf(SelectSeq(surface, IsOverlay)) = last.areas
                /\ LabelsOf(SelectSeq(surface, IsLine)) = last.lnames
          /\ \A i \in 1..Len(surface) :
                /\ surface[i].what \in {"marker", "overlay"}
                      => surface[i].label \in DOMAIN volume.volume_maps
                /\ surface[i].what = "line" => surface[i].label \in DOMAIN volume.layers

\* C7 witness: layers=["ILM", "nope"]: the line of ILM is drawn, then the
\* lookup of "nope" raises KeyError out of plot.
C7_Witness ==
    /\ IsPlot
    /\ last.lnames = <<"ILM", "nope">>
    /\ last.error = "KeyError"
    /\ \E i \in 1..Len(surface) : surface[i].what = "line" /\ surface[i].label = "ILM"
    /\ "nope" \notin DOMAIN layers

GainedOnlySelected(before, after, selected) ==
    /\ \A n \in DOMAIN before : n \in DOMAIN after /\ after[n] = before[n]
    /\ \A n \in DOMAIN after : n \in DOMAIN before \/ n \in Range(selected)

\* C10: after any sequence of accesses and plot calls the parent's pixel data,
\* mask arrays and layer curves and the default styles are as they were built;
\* a plot call leaves the caller's style mappings as passed, adds to the two
\* mappings only names it selected (none when nothing is selected), and draws
\* every line from the parent's original curve.
C10_Frame ==
    /\ volume = TheVolume
    /\ config = TheConfig
    /\ IsPlot =>
          /\ last.kwargs_after = [layer_kwargs |-> last.args.layer_kwargs,
                                  area_kwargs |-> last.args.area_kwargs]
          /\ GainedOnlySelected(last.before.layers, layers, last.lnames)
          /\ GainedOnlySelected(last.before.area_maps, area_maps, last.areas)
          /\ (last.lnames = <<>> /\ last.areas = <<>>)
                => (layers = last.before.layers /\ area_maps = last.before.area_maps)
          /\ (last.region[1].start <= last.region[1].stop /\ last.region[2].start >= 0
              /\ last.region[2].stop >= 0) => LinesAsClaimed

\* C10 witness: a plot of rows 1:2 whose ILM line is clamped, ILM having been
\* stored before the call and a mask of the parent being stored too.
C10_Witness ==
    /\ PlotOK
    /\ "ILM" \in DOMAIN last.before.layers
    /\ area_maps # <<>>
    /\ last.region[1] = Slice(1, 2)
    /\ \E i \in 1..Len(surface) :
          /\ surface[i].what = "line" /\ surface[i].label = "ILM"
          /\ \E k \in 1..Len(surface[i].ydata) :
                surface[i].ydata[k] #
                   Minus(OriginalCurve("ILM")[last.region[2].start + k], 1)

====
